---- MODULE Spec2Model ----
(***************************************************************************)
(* Connection/session layer of the React frontend of linera-quiz:          *)
(*   - LineraAdapter (providers/LineraAdapter.ts): the singleton that      *)
(*     holds the provider, the application handle, the memoized WASM       *)
(*     initialisation promise and the pending connect promise;             *)
(*   - ConnectionContext (contexts/ConnectionContext.tsx): the retrying    *)
(*     queryApplication wrapper and the debounced new-block distribution.  *)
(* and the quiz store of the Vue frontend (front-end/src/stores/            *)
(* quizStore.ts): the submissions list, its ranking and the scoring of a    *)
(* submitted quiz.                                                         *)
(*                                                                         *)
(* JavaScript runs each synchronous stretch of code atomically; every      *)
(* `await` is a point where other tasks may run.  One action of the model  *)
(* is one such synchronous stretch.                                        *)
(***************************************************************************)
EXTENDS Integers, Sequences, FiniteSets, TLC

\* ------------------------------------------------------------------------
\* Bounds of the model
\* ------------------------------------------------------------------------
\* connect calls and reset calls the components make on the adapter
MaxConnects == 3
MaxResets == 1
\* connect and reset calls made around one queryApplication call
MaxEnvOps == 2
MaxFairEnvOps == 1
\* connect and reset calls made while the context manages the connection
MaxContextOps == 2
\* submissions the quiz store holds, and the largest score and time of one
MaxSubmissions == 3
MaxScore == 1
MaxTimeTaken == 1
\* answers one submitQuiz call carries
MaxAnswers == 2

\* Wallet addresses a DynamicWallet may carry.
Wallets == {"A", "B"}

\* null for a string field; object references are ids, 0 for null.
NULL == "null"

VARIABLES
  \* ---- fields of LineraAdapter ----
  provider,              \* NoProvider, or [address, id] of the LineraProvider
  application,           \* 0, or the id of the provider whose client built it
  wasmInitPromise,       \* 0, or an index into wasmPromises
  connectPromise,        \* 0, or the id of the handshake the promise runs
  isConnecting,
  currentWalletAddress,
  isInitialized,
  \* ---- the asynchronous work the adapter has started ----
  wasmPromises,          \* the promises returned by initLinera(), in order
  handshakes,            \* id -> the async body of a connect call still running
  calls,                 \* the connect calls whose caller has not resumed
  appPending,            \* clients on which a setApplication call awaits
  nConnects,             \* number of connect() calls so far
  resets,                \* number of reset() calls so far
  sinceReset,            \* reset() was called and connect() not since
  \* ---- what the last step did, for the callers ----
  returned,              \* the connect calls whose promise settled in the step
  fired,                 \* the step ran onConnectionChangeCallbacks.forEach
  \* ---- ConnectionContext ----
  state,                 \* the ConnectionState held by useState
  q,                     \* one queryApplication call: its position and locals
  newBlockCallbacks,     \* newBlockCallbacks.current
  lastBlockHeight,       \* lastBlockHeight.current, NoHeight while null
  lastBlockProcessTime,  \* lastBlockProcessTime.current, NoTime while null
  \* ---- the new-block notifications, as the handler saw them ----
  now,                   \* Date.now(), in ms
  note,                  \* the last notification handed to handleNotification
  processedTimes,        \* the receive times of the notifications processed
  \* ---- calls made by the components ----
  op,                    \* the operation the last step called, and its outcome
  ctl,                   \* one connectToLinera call: its position and locals
  \* ---- the quiz store of the Vue frontend ----
  quizzes,               \* quizzes.value
  submissions,           \* submissions.value
  savedSubmissions,      \* the list localStorage holds under 'submissions'
  rankings               \* what the last getQuizRankings call returned

adapterFields == <<provider, application, wasmInitPromise, connectPromise,
                   isConnecting, currentWalletAddress, isInitialized>>
adapterVars == <<provider, application, wasmInitPromise, connectPromise,
                 isConnecting, currentWalletAddress, isInitialized,
                 wasmPromises, handshakes, calls, appPending, nConnects,
                 resets, sinceReset, returned, fired>>
asyncVars == <<wasmPromises, handshakes, calls, appPending, nConnects, resets,
                 sinceReset>>
blockVars == <<newBlockCallbacks, lastBlockHeight, lastBlockProcessTime, now,
               note, processedTimes>>
callVars == <<op, ctl>>
storeVars == <<quizzes, submissions, savedSubmissions, rankings>>
vars == <<adapterVars, state, q, blockVars, callVars, storeVars>>

\* ------------------------------------------------------------------------
\* LineraAdapter
\* ------------------------------------------------------------------------

NoProvider == [address |-> NULL, id |-> 0]

\* One call of an operation: its name, its argument, the message of the Error
\* it threw before its first await (NULL: none) and whether it called the SDK.
Op(name, arg, threw, sent) ==
  [name |-> name, arg |-> arg, threw |-> threw, sent |-> sent]

NoOp == Op("none", NULL, NULL, FALSE)

isChainConnected == provider # NoProvider

isApplicationSet == application # 0

isConnectedWithWallet(w) ==
  provider # NoProvider /\ currentWalletAddress = w /\ isInitialized

getConnectionStatus ==
  IF isConnecting \/ connectPromise # 0 THEN "connecting"
  ELSE IF provider # NoProvider /\ isInitialized THEN "connected"
  ELSE "disconnected"

\* The state of the promise of handshake h.
HsSettled(h) == handshakes[h].pc \in {"resolved", "rejected"}

\* The promise of some handshake has settled and the call that awaits it
\* (`await this.connectPromise`) has not resumed yet.  That continuation is
\* a microtask: it runs before any event handler, timer or I/O completion.
OwnerPending == \E h \in DOMAIN handshakes : HsSettled(h)

\* The provider object the async body of handshake h builds and returns.
HsProvider(h) == [address |-> handshakes[h].addr, id |-> h]

\* One connect call: its number, who made it, the wallet, the path it took
\* ("reuse": returned this.provider; "wait": returned this.connectPromise;
\* "start": started handshake hs), the number of reset() calls before it, and
\* how its promise settled (ret: the provider it resolved with).
Call(by, w, path, h, status, ret) ==
  [id |-> nConnects + 1, by |-> by, addr |-> w, path |-> path, hs |-> h,
   resets |-> resets, status |-> status, ret |-> ret]

\* A call made by connectToLinera stays in `calls` after it has settled,
\* until connectToLinera resumes; a component's own call leaves at once.
Kept(cs) == {c \in cs : c.by # "env"}

Pending(cs) == {c \in cs : c.status = "pending"}

\* The calls of cs, settled as the promise of handshake h settled.
SettledWith(cs, h) ==
  {[c EXCEPT !.status = handshakes[h].pc,
             !.ret = IF handshakes[h].pc = "resolved" THEN HsProvider(h)
                     ELSE NoProvider] : c \in cs}

\* A variant of ConnectPath that looks at the pending promise first.
ConnectPathPromiseFirst(w) ==
  IF connectPromise # 0 THEN "wait"
  ELSE IF provider # NoProvider /\ currentWalletAddress = w THEN "reuse"
  ELSE "start"

\* The two early returns of connect, in the order of the code.
ConnectPath(w) ==
  IF provider # NoProvider /\ currentWalletAddress = w THEN "reuse"
  ELSE IF connectPromise # 0 THEN "wait"
  ELSE "start"

\* connect(dynamicWallet), up to the first await of the call.
DoConnect(by, w) ==
  /\ nConnects' = nConnects + 1
  /\ fired' = FALSE
  /\ IF ConnectPath(w) = "reuse"
     THEN \* already connected with the same wallet: return this.provider
          LET c == Call(by, w, "reuse", 0, "resolved", provider)
          IN /\ returned' = {c}
             /\ calls' = calls \cup Kept({c})
             /\ UNCHANGED <<adapterFields, wasmPromises, handshakes>>
     ELSE IF ConnectPath(w) = "wait"
     THEN \* a connection is in progress: return this.connectPromise
          LET c == Call(by, w, "wait", connectPromise, "pending", NoProvider)
          IN /\ IF HsSettled(connectPromise)
                THEN /\ returned' = SettledWith({c}, connectPromise)
                     /\ calls' = calls \cup Kept(SettledWith({c}, connectPromise))
                ELSE /\ returned' = {}
                     /\ calls' = calls \cup {c}
             /\ UNCHANGED <<adapterFields, wasmPromises, handshakes>>
     ELSE LET h == nConnects + 1
              fresh == wasmInitPromise = 0
              wp == IF fresh THEN Len(wasmPromises) + 1 ELSE wasmInitPromise
          IN /\ isConnecting' = TRUE
             /\ currentWalletAddress' = w
             /\ wasmPromises' = IF fresh THEN Append(wasmPromises, "pending")
                                ELSE wasmPromises
             /\ wasmInitPromise' = wp
             /\ handshakes' = [i \in DOMAIN handshakes \cup {h} |->
                  IF i = h THEN [addr |-> w, wasm |-> wp, pc |-> "wasm"]
                  ELSE handshakes[i]]
             /\ connectPromise' = h
             /\ calls' = calls \cup
                  {Call(by, w, "start", h, "pending", NoProvider)}
             /\ returned' = {}
             /\ UNCHANGED <<provider, application, isInitialized>>
  /\ sinceReset' = FALSE
  /\ UNCHANGED <<appPending, resets>>

\* A component (UserInfo, LoginButton, the context's wallet effect) calls
\* lineraAdapter.connect(primaryWallet).
Connect(w) ==
  /\ ~OwnerPending
  /\ nConnects < MaxConnects
  /\ DoConnect("env", w)

\* The promise of initLinera() settles: it resolves, or rejects with a message
\* that contains 'storage is already initialized', or with another message.
WasmSettle(p, outcome) ==
  /\ ~OwnerPending
  /\ p \in 1..Len(wasmPromises)
  /\ wasmPromises[p] = "pending"
  /\ wasmPromises' = [wasmPromises EXCEPT ![p] = outcome]
  /\ fired' = FALSE
  /\ returned' = {}
  /\ UNCHANGED <<adapterFields, handshakes, calls, appPending, nConnects,
                 resets, sinceReset>>

\* The callers that were handed the promise of handshake h (`return
\* this.connectPromise`) settle with it.
SettleWaiters(h, hs2) ==
  LET ws == {c \in Pending(calls) : c.path = "wait" /\ c.hs = h}
      done == {[c EXCEPT !.status = hs2[h].pc,
                         !.ret = IF hs2[h].pc = "resolved" THEN HsProvider(h)
                                 ELSE NoProvider] : c \in ws}
  IN /\ returned' = done
     /\ calls' = (calls \ ws) \cup Kept(done)

\* `await this.wasmInitPromise` returns or throws inside the async body.  A
\* rejection that says the storage is already initialized is swallowed.
HsWasm(h) ==
  /\ h \in DOMAIN handshakes
  /\ handshakes[h].pc = "wasm"
  /\ wasmPromises[handshakes[h].wasm] # "pending"
  /\ LET ok == wasmPromises[handshakes[h].wasm]
                 \in {"resolved", "rejectedStorage"}
         hs2 == [handshakes EXCEPT ![h].pc = IF ok THEN "sdk" ELSE "rejected"]
     IN /\ handshakes' = hs2
        /\ IF ok THEN UNCHANGED <<calls>> /\ returned' = {}
           ELSE SettleWaiters(h, hs2)
  /\ fired' = FALSE
  /\ UNCHANGED <<adapterFields, wasmPromises, appPending, nConnects, resets,
                 sinceReset>>

\* One of the SDK calls of the handshake (new Faucet, faucet.createWallet,
\* faucet.claimChain, new DynamicSigner, new Client) rejects.  The body reads
\* and writes no adapter field between these awaits, so they are one wait.
HsFail(h) ==
  /\ ~OwnerPending
  /\ h \in DOMAIN handshakes
  /\ handshakes[h].pc = "sdk"
  /\ LET hs2 == [handshakes EXCEPT ![h].pc = "rejected"]
     IN /\ handshakes' = hs2
        /\ SettleWaiters(h, hs2)
  /\ fired' = FALSE
  /\ UNCHANGED <<adapterFields, wasmPromises, appPending, nConnects, resets,
                 sinceReset>>

\* Every SDK call of the handshake resolved: the body stores the provider,
\* runs the connection-state callbacks and returns this.provider.
HsComplete(h) ==
  /\ ~OwnerPending
  /\ h \in DOMAIN handshakes
  /\ handshakes[h].pc = "sdk"
  /\ provider' = HsProvider(h)
  /\ isInitialized' = TRUE
  /\ fired' = TRUE
  /\ LET hs2 == [handshakes EXCEPT ![h].pc = "resolved"]
     IN /\ handshakes' = hs2
        /\ SettleWaiters(h, hs2)
  /\ UNCHANGED <<application, wasmInitPromise, connectPromise, isConnecting,
                 currentWalletAddress, wasmPromises, appPending, nConnects,
                 resets, sinceReset>>

\* A variant of OwnerResume whose catch block keeps the provider and the
\* application.
OwnerResumeKeepsProvider(h) ==
  /\ h \in DOMAIN handshakes
  /\ HsSettled(h)
  /\ IF handshakes[h].pc = "rejected"
     THEN /\ currentWalletAddress' = NULL
          /\ UNCHANGED <<provider, application>>
     ELSE UNCHANGED <<currentWalletAddress, provider, application>>
  /\ connectPromise' = 0
  /\ isConnecting' = FALSE
  /\ LET own == {c \in calls : c.path = "start" /\ c.hs = h}
     IN /\ returned' = SettledWith(own, h)
        /\ calls' = (calls \ own) \cup Kept(SettledWith(own, h))
  /\ handshakes' = [i \in DOMAIN handshakes \ {h} |-> handshakes[i]]
  /\ fired' = FALSE
  /\ UNCHANGED <<wasmInitPromise, isInitialized, wasmPromises, appPending,
                 nConnects, resets, sinceReset>>

\* The call that started handshake h resumes after `await this.connectPromise`:
\* the catch block on a rejection, then the finally block; its own promise
\* settles.
OwnerResume(h) ==
  /\ h \in DOMAIN handshakes
  /\ HsSettled(h)
  /\ IF handshakes[h].pc = "rejected"
     THEN /\ currentWalletAddress' = NULL
          /\ provider' = NoProvider
          /\ application' = 0
     ELSE UNCHANGED <<currentWalletAddress, provider, application>>
  /\ connectPromise' = 0
  /\ isConnecting' = FALSE
  /\ LET own == {c \in calls : c.path = "start" /\ c.hs = h}
     IN /\ returned' = SettledWith(own, h)
        /\ calls' = (calls \ own) \cup Kept(SettledWith(own, h))
  /\ handshakes' = [i \in DOMAIN handshakes \ {h} |-> handshakes[i]]
  /\ fired' = FALSE
  /\ UNCHANGED <<wasmInitPromise, isInitialized, wasmPromises, appPending,
                 nConnects, resets, sinceReset>>

\* A variant of reset() that also forgets the WASM initialisation.
DoResetForgetsWasm ==
  /\ application' = 0
  /\ provider' = NoProvider
  /\ connectPromise' = 0
  /\ currentWalletAddress' = NULL
  /\ isConnecting' = FALSE
  /\ isInitialized' = FALSE
  /\ wasmInitPromise' = 0
  /\ fired' = TRUE
  /\ returned' = {}
  /\ resets' = resets + 1
  /\ sinceReset' = TRUE
  /\ UNCHANGED <<wasmPromises, handshakes, calls, appPending, nConnects>>

\* reset()
DoReset ==
  /\ application' = 0
  /\ provider' = NoProvider
  /\ connectPromise' = 0
  /\ currentWalletAddress' = NULL
  /\ isConnecting' = FALSE
  /\ isInitialized' = FALSE
  /\ fired' = TRUE
  /\ returned' = {}
  /\ resets' = resets + 1
  /\ sinceReset' = TRUE
  /\ UNCHANGED <<wasmInitPromise, wasmPromises, handshakes, calls, appPending,
                 nConnects>>

\* A component calls lineraAdapter.reset() (logout, wallet disconnected).
Reset ==
  /\ ~OwnerPending
  /\ resets < MaxResets
  /\ DoReset

\* A variant of SetApplicationError that never throws.
SetApplicationErrorNever == NULL

\* if (!this.provider) throw new Error('Not connected to Linera')
SetApplicationError ==
  IF provider = NoProvider THEN "NotConnected" ELSE NULL

\* if (!this.application) throw new Error('Application not set')
ApplicationError ==
  IF application = 0 THEN "AppNotSet" ELSE NULL

\* if (!this.provider) throw new Error('Provider not set'); the faucet and
\* the wallet are fields of the provider.
ProviderError(name) ==
  IF provider # NoProvider THEN NULL
  ELSE CASE name = "getProvider" -> "ProviderNotSet"
         [] name = "getFaucet" -> "FaucetNotSet"
         [] name = "getWallet" -> "WalletNotSet"

\* A component calls setApplication(): up to `await
\* this.provider.client.application(...)`.  With no provider it throws 'Not
\* connected to Linera'.  The components have one such call in flight at a
\* time.
SetApplication ==
  /\ ~OwnerPending
  /\ fired' = FALSE
  /\ returned' = {}
  /\ IF SetApplicationError # NULL
     THEN UNCHANGED appPending
     ELSE /\ appPending = {}
          /\ appPending' = appPending \cup {provider.id}
  /\ UNCHANGED <<adapterFields, wasmPromises, handshakes, calls, nConnects,
                 resets, sinceReset>>

\* client.application() resolved with an application: store it, run callbacks.
AppResolve(c) ==
  /\ ~OwnerPending
  /\ c \in appPending
  /\ application' = c
  /\ appPending' = appPending \ {c}
  /\ fired' = TRUE
  /\ returned' = {}
  /\ UNCHANGED <<provider, wasmInitPromise, connectPromise, isConnecting,
                 currentWalletAddress, isInitialized, wasmPromises,
                 handshakes, calls, nConnects, resets, sinceReset>>

\* client.application() rejected, or resolved with nothing
\* ('Failed to get application').
AppFail(c) ==
  /\ ~OwnerPending
  /\ c \in appPending
  /\ appPending' = appPending \ {c}
  /\ fired' = FALSE
  /\ returned' = {}
  /\ UNCHANGED <<adapterFields, wasmPromises, handshakes, calls, nConnects,
                 resets, sinceReset>>

\* The adapter's operations as a component calls them, with the outcome of
\* the call kept in op.
CallSetApplication ==
  /\ SetApplication
  /\ op' = Op("setApplication", NULL, SetApplicationError,
              SetApplicationError = NULL)

\* queryApplication(query) and mutateApplication(mutation), up to `await
\* this.application.query(...)`.  What follows the await parses the response
\* and returns it or throws: it reads and writes no field of the adapter.
CallApplication(name) ==
  /\ ~OwnerPending
  /\ op' = Op(name, NULL, ApplicationError, ApplicationError = NULL)
  /\ fired' = FALSE
  /\ returned' = {}
  /\ UNCHANGED <<adapterFields, asyncVars>>

\* getProvider(), getFaucet(), getWallet()
CallProviderGetter(name) ==
  /\ ~OwnerPending
  /\ op' = Op(name, NULL, ProviderError(name), FALSE)
  /\ fired' = FALSE
  /\ returned' = {}
  /\ UNCHANGED <<adapterFields, asyncVars>>

\* getApplication()
CallGetApplication ==
  /\ ~OwnerPending
  /\ op' = Op("getApplication", NULL, ApplicationError, FALSE)
  /\ fired' = FALSE
  /\ returned' = {}
  /\ UNCHANGED <<adapterFields, asyncVars>>

\* ------------------------------------------------------------------------
\* ConnectionContext: queryApplication
\* ------------------------------------------------------------------------

\* The text of each error message an attempt can fail with, one character per
\* element.  Thrown by the context and the adapter: NoWallet, Timeout,
\* NotConnected, NoApplication, AppNotSet; Unknown is what the catch block
\* uses for a thrown value that is no Error.  The SDK's own rejections and the
\* errors of a GraphQL response carry any text: one that mentions a connection
\* and two that do not stand for them.
MessageText(m) ==
  CASE m = "NoWallet" ->
         <<"N", "o", " ", "w", "a", "l", "l", "e", "t", " ", "c", "o", "n", "n", "e", "c", "t", "e", "d">>
    [] m = "Timeout" ->
         <<"C", "o", "n", "n", "e", "c", "t", "i", "o", "n", " ", "t", "i", "m", "e", "o", "u", "t">>
    [] m = "NotConnected" ->
         <<"N", "o", "t", " ", "c", "o", "n", "n", "e", "c", "t", "e", "d", " ", "t", "o", " ", "L", "i", "n", "e", "r", "a">>
    [] m = "NoApplication" ->
         <<"F", "a", "i", "l", "e", "d", " ", "t", "o", " ", "g", "e", "t", " ", "a", "p", "p", "l", "i", "c", "a", "t", "i", "o", "n">>
    [] m = "AppNotSet" ->
         <<"A", "p", "p", "l", "i", "c", "a", "t", "i", "o", "n", " ", "n", "o", "t", " ", "s", "e", "t">>
    [] m = "SdkConnection" ->
         <<"c", "o", "n", "n", "e", "c", "t", "i", "o", "n", " ", "c", "l", "o", "s", "e", "d">>
    [] m = "SdkOther" ->
         <<"r", "e", "q", "u", "e", "s", "t", " ", "f", "a", "i", "l", "e", "d">>
    [] m = "QueryError" ->
         <<"L", "i", "n", "e", "r", "a", " ", "q", "u", "e", "r", "y", " ", "e", "r", "r", "o", "r", ":", " ", "Q", "u", "i", "z", "N", "o", "t", "F", "o", "u", "n", "d">>
    [] m = "Unknown" ->
         <<"U", "n", "k", "n", "o", "w", "n", " ", "e", "r", "r", "o", "r">>

Messages == {"NoWallet", "Timeout", "NotConnected", "NoApplication",
             "AppNotSet", "SdkConnection", "SdkOther", "QueryError", "Unknown"}

\* What client.application() or application.query() may reject with.
SdkMessages == {"SdkConnection", "SdkOther", "Unknown"}

\* String.prototype.includes
Includes(s, sub) ==
  \E i \in 1..(Len(s) - Len(sub) + 1) : SubSeq(s, i, i + Len(sub) - 1) = sub

\* retryCount < 2
MaxRetryCount == 2
\* const MAX_WAIT_TIME = 5000; const WAIT_INTERVAL = 500
MAX_WAIT_TIME == 5000
WAIT_INTERVAL == 500

\* A variant of IsConnectionError that matches 'connect' in any word.
IsConnectionErrorLoose(m) ==
  \/ Includes(MessageText(m), <<"C", "o", "n", "n", "e", "c", "t">>)
  \/ Includes(MessageText(m), <<"c", "o", "n", "n", "e", "c", "t">>)

IsConnectionError(m) ==
  \/ Includes(MessageText(m), <<"C", "o", "n", "n", "e", "c", "t", "i", "o", "n">>)
  \/ Includes(MessageText(m), <<"c", "o", "n", "n", "e", "c", "t", "i", "o", "n">>)

\* A variant of ShouldRetry that allows one retry more.
ShouldRetryOnceMore(m, rc) == IsConnectionError(m) /\ rc <= MaxRetryCount

ShouldRetry(m, rc) == IsConnectionError(m) /\ rc < MaxRetryCount

\* setTimeout(resolve, 1000 * (retryCount + 1))
RetryDelay(rc) == 1000 * (rc + 1)

NoError == [message |-> NULL, attempt |-> -1]

\* The catch block of queryApplication: qq is the call's state when the
\* attempt threw an error with message m.
Catch(qq, m) ==
  LET err == [message |-> m, attempt |-> qq.retryCount]
  IN IF ShouldRetry(m, qq.retryCount)
     THEN [qq EXCEPT !.pc = "delay", !.error = err,
                     !.delay = RetryDelay(qq.retryCount)]
     ELSE [qq EXCEPT !.pc = "rejected", !.error = err, !.rejection = err,
                     !.delay = 0]

\* lineraAdapter.queryApplication(params), up to `await application.query`.
AdapterQuery(qq) ==
  IF application = 0 THEN Catch(qq, "AppNotSet")
  ELSE [qq EXCEPT !.pc = "awaitQuery", !.app = application, !.delay = 0]

\* Lines 353-359: make sure the application is set, then run the query.
\* setApplication throws at once with no provider, else awaits the client.
Proceed(qq) ==
  IF application # 0 THEN AdapterQuery(qq)
  ELSE IF provider = NoProvider THEN Catch(qq, "NotConnected")
  ELSE [qq EXCEPT !.pc = "awaitApp", !.client = provider.id, !.delay = 0]

\* The step leaves the adapter alone.
Quiet == fired' = FALSE /\ returned' = {}
AdapterIdle == UNCHANGED <<adapterFields, asyncVars>> /\ Quiet

\* setState after a successful connectToLinera
Connected(st, w) ==
  [st EXCEPT !.isWalletConnected = TRUE, !.isLineraConnected = TRUE,
             !.isConnecting = FALSE, !.walletAddress = w,
             !.connectionError = NULL]

\* One attempt of queryApplication(params, rc), up to its first await.
Attempt(qq, rc) ==
  LET q1 == [qq EXCEPT !.retryCount = rc, !.attempts = qq.attempts + 1,
                       !.waitTime = 0, !.polls = 0, !.waited = FALSE,
                       !.connects = 0, !.delay = 0]
      w == qq.wallet
  IN IF w = NULL
     THEN /\ q' = Catch(q1, "NoWallet")
          /\ AdapterIdle
          /\ UNCHANGED state
     ELSE IF isConnectedWithWallet(w)
     THEN /\ q' = Proceed(q1)
          /\ AdapterIdle
          /\ UNCHANGED state
     ELSE IF getConnectionStatus = "connecting"
     THEN \* wait for the connection in progress: at most MAX_WAIT_TIME
          /\ q' = [q1 EXCEPT !.pc = "sleep", !.waited = TRUE,
                             !.delay = WAIT_INTERVAL]
          /\ AdapterIdle
          /\ UNCHANGED state
     ELSE \* connectToLinera(), up to `await lineraAdapter.connect`
          /\ state' = [state EXCEPT !.isConnecting = TRUE,
                                    !.connectionError = NULL]
          /\ DoConnect("query", w)
          /\ q' = [q1 EXCEPT !.pc = "ctlConnect", !.call = nConnects + 1,
                             !.connects = 1]

\* A component calls queryApplication(params): retryCount defaults to 0.
QueryApplication(w) ==
  /\ q.pc = "idle"
  /\ Attempt([q EXCEPT !.wallet = w], 0)

\* The retry timer fired: return queryApplication(params, retryCount + 1).
QueryRetry ==
  /\ q.pc = "delay"
  /\ Attempt(q, q.retryCount + 1)

\* A variant of WaitMore that goes round once more.
WaitMoreInclusive(waitTime) == waitTime <= MAX_WAIT_TIME

\* while (waitTime < MAX_WAIT_TIME)
WaitMore(waitTime) == waitTime < MAX_WAIT_TIME

\* The WAIT_INTERVAL timer of the wait loop fired: lines 339-347.
QueryPoll ==
  /\ q.pc = "sleep"
  /\ LET q1 == [q EXCEPT !.polls = q.polls + 1]
     IN IF isConnectedWithWallet(q.wallet)
        THEN q' = Proceed(q1)
        ELSE LET q2 == [q1 EXCEPT !.waitTime = q.waitTime + WAIT_INTERVAL]
             IN IF WaitMore(q2.waitTime)
                THEN q' = [q2 EXCEPT !.delay = WAIT_INTERVAL]
                ELSE q' = Catch(q2, "Timeout")
  /\ AdapterIdle
  /\ UNCHANGED state

\* connectToLinera resumes after `await lineraAdapter.connect(primaryWallet)`.
\* Its catch block swallows every error, so it always returns.
CtlResume ==
  /\ q.pc = "ctlConnect"
  /\ \E c \in calls :
       /\ c.id = q.call
       /\ c.status # "pending"
       /\ calls' = calls \ {c}
       /\ IF c.status = "rejected"
          THEN \* connect threw 'Failed to connect to Linera network: ...'
               /\ state' = [state EXCEPT !.isConnecting = FALSE,
                                         !.connectionError = "ConnectFailed"]
               /\ q' = [q EXCEPT !.pc = "ctlDone"]
          ELSE IF application # 0
          THEN /\ state' = Connected(state, q.wallet)
               /\ q' = [q EXCEPT !.pc = "ctlDone"]
          ELSE IF provider = NoProvider
          THEN \* setApplication throws 'Not connected to Linera'
               /\ state' = [state EXCEPT !.isConnecting = FALSE,
                                         !.connectionError = "NotConnected"]
               /\ q' = [q EXCEPT !.pc = "ctlDone"]
          ELSE /\ q' = [q EXCEPT !.pc = "ctlApp", !.client = provider.id]
               /\ UNCHANGED state
  /\ Quiet
  /\ UNCHANGED <<adapterFields, wasmPromises, handshakes, appPending,
                 nConnects, resets, sinceReset>>

\* The setApplication call of connectToLinera resolves: the adapter stores the
\* application and runs the callbacks, connectToLinera records the success.
CtlAppResolve ==
  /\ q.pc = "ctlApp"
  /\ application' = q.client
  /\ fired' = TRUE
  /\ returned' = {}
  /\ state' = Connected(state, q.wallet)
  /\ q' = [q EXCEPT !.pc = "ctlDone"]
  /\ UNCHANGED <<provider, wasmInitPromise, connectPromise, isConnecting,
                 currentWalletAddress, isInitialized, asyncVars>>

\* The setApplication call of connectToLinera rejects (the SDK's error, or
\* 'Failed to get application'): connectToLinera records the message.
CtlAppFail(m) ==
  /\ q.pc = "ctlApp"
  /\ state' = [state EXCEPT !.isConnecting = FALSE, !.connectionError = m]
  /\ q' = [q EXCEPT !.pc = "ctlDone"]
  /\ AdapterIdle

\* queryApplication resumes after `await connectToLinera()`.
QueryAfterConnect ==
  /\ q.pc = "ctlDone"
  /\ q' = Proceed(q)
  /\ AdapterIdle
  /\ UNCHANGED state

\* The setApplication call of queryApplication resolves.
QueryAppResolve ==
  /\ q.pc = "awaitApp"
  /\ application' = q.client
  /\ fired' = TRUE
  /\ returned' = {}
  /\ q' = [q EXCEPT !.pc = "afterApp"]
  /\ UNCHANGED <<provider, wasmInitPromise, connectPromise, isConnecting,
                 currentWalletAddress, isInitialized, asyncVars, state>>

\* The setApplication call of queryApplication rejects.
QueryAppFail(m) ==
  /\ q.pc = "awaitApp"
  /\ q' = Catch(q, m)
  /\ AdapterIdle
  /\ UNCHANGED state

\* queryApplication resumes after `await lineraAdapter.setApplication()`.
QueryAfterApp ==
  /\ q.pc = "afterApp"
  /\ q' = AdapterQuery(q)
  /\ AdapterIdle
  /\ UNCHANGED state

\* application.query() resolved with a response that carries no errors.
QueryResolve ==
  /\ q.pc = "awaitQuery"
  /\ q' = [q EXCEPT !.pc = "resolved"]
  /\ AdapterIdle
  /\ UNCHANGED state

\* application.query() rejected, or its response carries errors
\* ('Linera query error: ...').
QueryFail(m) ==
  /\ q.pc = "awaitQuery"
  /\ q' = Catch(q, m)
  /\ AdapterIdle
  /\ UNCHANGED state

\* ------------------------------------------------------------------------
\* The quiz store of the Vue frontend: getQuizRankings
\* ------------------------------------------------------------------------

QuizIds == {"quiz1", "quiz2"}

\* The fields of a QuizSubmission the ranking reads or copies; the id stands
\* for the object, with its userId, userName and submittedAt.
Submission(id, quizId, score, timeTaken) ==
  [id |-> id, quizId |-> quizId, score |-> score, timeTaken |-> timeTaken]

\* What localStorage may hold under 'submissions' for one submission.
SavedFields ==
  [quizId : QuizIds, score : 0..MaxScore, timeTaken : 0..MaxTimeTaken]

\* The list JSON.parse makes of the saved submissions f; every submission
\* has its own id.
LoadSubmissions(f) ==
  [i \in DOMAIN f |->
     Submission(i, f[i].quizId, f[i].score, f[i].timeTaken)]

\* A comparator that reads the score only.
CompareScoreOnly(a, b) == b.score - a.score

\* The comparator handed to sort().
Compare(a, b) ==
  IF b.score # a.score THEN b.score - a.score
  ELSE a.timeTaken - b.timeTaken

\* Array.prototype.sort is stable: an element goes behind every element
\* before it that the comparator does not put after it.
RECURSIVE Insert(_, _)
Insert(sorted, x) ==
  IF sorted = <<>> THEN <<x>>
  ELSE IF Compare(Head(sorted), x) <= 0
       THEN <<Head(sorted)>> \o Insert(Tail(sorted), x)
       ELSE <<x>> \o sorted

RECURSIVE Sort(_)
Sort(s) ==
  IF s = <<>> THEN <<>>
  ELSE Insert(Sort(SubSeq(s, 1, Len(s) - 1)), s[Len(s)])

\* .filter(sub => sub.quizId === quizId): a new array.
FilterQuiz(subs, quizId) == SelectSeq(subs, LAMBDA sub : sub.quizId = quizId)

\* .map((sub, index) => ({ ...sub, rank: index + 1 })); the indices of a
\* sequence start at 1 where those of an array start at 0.
WithRank(s) ==
  [i \in 1..Len(s) |->
     [id |-> s[i].id, quizId |-> s[i].quizId, score |-> s[i].score,
      timeTaken |-> s[i].timeTaken, rank |-> (i - 1) + 1]]

\* getQuizRankings(quizId): sort() works in place on the array filter()
\* made, and map() copies each submission.
GetQuizRankings(quizId) ==
  /\ rankings' = WithRank(Sort(FilterQuiz(submissions, quizId)))
  /\ op' = Op("getQuizRankings", quizId, NULL, FALSE)
  /\ UNCHANGED <<quizzes, submissions, savedSubmissions>>

\* ------------------------------------------------------------------------
\* The quiz store of the Vue frontend: submitQuiz
\* ------------------------------------------------------------------------

\* The ids of the questions of a quiz, in the order of quiz.questions, and
\* what a question may be.
QuestionOrder == <<"q1", "q2">>
QuestionIds == {"q1", "q2"}
QuestionTypes == {"single", "multiple"}
QuestionPoints == <<3, 1>>
CorrectAnswers == {<<0>>, <<0, 1>>}
QuestionKinds == [type : QuestionTypes, correctAnswers : CorrectAnswers]

\* What an answer may select and the seconds it may take.  On these times
\* and on the points above the double arithmetic of the code is exact up to
\* the rounding.
SelectedAnswers == {<<1>>, <<0, 1>>, <<1, 0>>}
AnswerTimes == {15, 20, 30, 45}
Answers ==
  [questionId : QuestionIds, selectedAnswers : SelectedAnswers,
   timeTaken : AnswerTimes]

\* The quiz with the questions k, each under its own id and with its own
\* points.
Quiz(id, k) ==
  [id |-> id,
   questions |-> [i \in DOMAIN k |->
                    [id |-> QuestionOrder[i], type |-> k[i].type,
                     points |-> QuestionPoints[i],
                     correctAnswers |-> k[i].correctAnswers]]]

NoQuiz == [id |-> NULL, questions |-> <<>>]
NoQuestion ==
  [id |-> NULL, type |-> NULL, points |-> 0, correctAnswers |-> <<>>]

\* Array.prototype.find: the first element with the id, or undefined.
RECURSIVE FindById(_, _, _)
FindById(arr, id, none) ==
  IF arr = <<>> THEN none
  ELSE IF Head(arr).id = id THEN Head(arr)
  ELSE FindById(Tail(arr), id, none)

\* Array.prototype.includes
ArrayIncludes(arr, x) == \E i \in DOMAIN arr : arr[i] = x

\* isCorrect, for a question of either type.
IsCorrect(question, answer) ==
  IF question.type = "single"
  THEN /\ Len(answer.selectedAnswers) = 1
       /\ ArrayIncludes(question.correctAnswers, answer.selectedAnswers[1])
  ELSE /\ \A i \in DOMAIN question.correctAnswers :
            ArrayIncludes(answer.selectedAnswers, question.correctAnswers[i])
       /\ \A i \in DOMAIN answer.selectedAnswers :
            ArrayIncludes(question.correctAnswers, answer.selectedAnswers[i])

\* The seconds of the benchmark the time ratio is taken against.
BenchmarkSeconds == 30

\* Math.round of the fraction n / d, d > 0: the nearest integer, a half
\* going up.
Round(n, d) == (2 * n + d) \div (2 * d)

\* A weighted score whose time ratio is not capped at 1.
WeightedScoreNoCap(points, timeTaken) ==
  Round(points * (BenchmarkSeconds - timeTaken), BenchmarkSeconds)

\* timeRatio = Math.min(timeTaken / 30, 1) and
\* weightedScore = Math.round(points * (1 - timeRatio)), in thirtieths.
WeightedScore(points, timeTaken) ==
  LET timeRatio30 == IF timeTaken < BenchmarkSeconds THEN timeTaken
                     ELSE BenchmarkSeconds
  IN Round(points * (BenchmarkSeconds - timeRatio30), BenchmarkSeconds)

\* answers.forEach(...): totalScore and totalTime after the answers, from
\* the first to the last.
RECURSIVE ScoreAnswers(_, _)
ScoreAnswers(quiz, answers) ==
  IF answers = <<>> THEN [totalScore |-> 0, totalTime |-> 0]
  ELSE LET n == Len(answers)
           before == ScoreAnswers(quiz, SubSeq(answers, 1, n - 1))
           answer == answers[n]
           question == FindById(quiz.questions, answer.questionId, NoQuestion)
       IN IF question = NoQuestion THEN before
          ELSE [totalScore |->
                  before.totalScore
                    + (IF IsCorrect(question, answer)
                       THEN WeightedScore(question.points, answer.timeTaken)
                       ELSE 0),
                totalTime |-> before.totalTime + answer.timeTaken]

\* submitQuiz(quizId, userId, userName, answers); uuidv4() gives an id no
\* submission of the list has.
SubmitQuiz(quizId, answers) ==
  LET quiz == FindById(quizzes, quizId, NoQuiz)
      total == ScoreAnswers(quiz, answers)
      submission == Submission(Len(submissions) + 1, quizId,
                               total.totalScore, total.totalTime)
  IN IF quiz = NoQuiz
     THEN /\ op' = Op("submitQuiz", [quizId |-> quizId, answers |-> answers],
                      "QuizNotFound", FALSE)
          /\ UNCHANGED storeVars
     ELSE /\ op' = Op("submitQuiz", [quizId |-> quizId, answers |-> answers],
                      NULL, FALSE)
          /\ submissions' = Append(submissions, submission)
          /\ savedSubmissions' = Append(submissions, submission)
          /\ UNCHANGED <<quizzes, rankings>>

\* ------------------------------------------------------------------------
\* ConnectionContext: connectToLinera, disconnectFromLinera and the periodic
\* status check
\* ------------------------------------------------------------------------

\* A variant of ConnectToLineraBranch that does not look at the status.
ConnectToLineraBranchNoStatus(w) ==
  IF w = NULL THEN "noWallet"
  ELSE IF isConnectedWithWallet(w) THEN "synchronise"
  ELSE "connect"

\* The early returns of connectToLinera, in the order of the code.
ConnectToLineraBranch(w) ==
  IF w = NULL THEN "noWallet"
  ELSE IF isConnectedWithWallet(w) THEN "synchronise"
  ELSE IF getConnectionStatus = "connecting" THEN "busy"
  ELSE "connect"

CtlIdle == [pc |-> "idle", wallet |-> NULL, call |-> 0, client |-> 0]

\* A component, or the wallet effect of the context, calls connectToLinera()
\* with primaryWallet?.address = w: up to its first await.  One call at a time
\* is past that await.
ConnectToLinera(w) ==
  /\ ~OwnerPending
  /\ op' = Op("connectToLinera", w, NULL, FALSE)
  /\ IF ConnectToLineraBranch(w) = "noWallet"
     THEN /\ state' = [state EXCEPT !.connectionError = "NoWallet"]
          /\ AdapterIdle
          /\ UNCHANGED ctl
     ELSE IF ConnectToLineraBranch(w) = "synchronise"
     THEN /\ state' = [state EXCEPT !.isLineraConnected = TRUE,
                                    !.walletAddress = w,
                                    !.connectionError = NULL]
          /\ AdapterIdle
          /\ UNCHANGED ctl
     ELSE IF ConnectToLineraBranch(w) = "busy"
     THEN /\ AdapterIdle
          /\ UNCHANGED <<state, ctl>>
     ELSE /\ ctl.pc = "idle"
          /\ nConnects + resets < MaxContextOps
          /\ state' = [state EXCEPT !.isConnecting = TRUE,
                                    !.connectionError = NULL]
          /\ DoConnect("ctl", w)
          /\ ctl' = [pc |-> "connect", wallet |-> w, call |-> nConnects + 1,
                     client |-> 0]

\* connectToLinera resumes after `await lineraAdapter.connect(primaryWallet)`;
\* its catch block records the message of any error.
ContextConnectResume ==
  /\ ctl.pc = "connect"
  /\ \E c \in calls :
       /\ c.id = ctl.call
       /\ c.status # "pending"
       /\ calls' = calls \ {c}
       /\ IF c.status = "rejected"
          THEN /\ state' = [state EXCEPT !.isConnecting = FALSE,
                                         !.connectionError = "ConnectFailed"]
               /\ ctl' = CtlIdle
          ELSE IF isApplicationSet
          THEN /\ state' = Connected(state, ctl.wallet)
               /\ ctl' = CtlIdle
          ELSE IF SetApplicationError # NULL
          THEN /\ state' = [state EXCEPT !.isConnecting = FALSE,
                               !.connectionError = SetApplicationError]
               /\ ctl' = CtlIdle
          ELSE /\ ctl' = [ctl EXCEPT !.pc = "app", !.client = provider.id]
               /\ UNCHANGED state
  /\ Quiet
  /\ op' = NoOp
  /\ UNCHANGED <<adapterFields, wasmPromises, handshakes, appPending,
                 nConnects, resets, sinceReset>>

\* The setApplication call of connectToLinera resolves.
ContextAppResolve ==
  /\ ctl.pc = "app"
  /\ ~OwnerPending
  /\ application' = ctl.client
  /\ fired' = TRUE
  /\ returned' = {}
  /\ state' = Connected(state, ctl.wallet)
  /\ ctl' = CtlIdle
  /\ op' = NoOp
  /\ UNCHANGED <<provider, wasmInitPromise, connectPromise, isConnecting,
                 currentWalletAddress, isInitialized, asyncVars>>

\* The setApplication call of connectToLinera rejects.
ContextAppFail(m) ==
  /\ ctl.pc = "app"
  /\ ~OwnerPending
  /\ state' = [state EXCEPT !.isConnecting = FALSE, !.connectionError = m]
  /\ ctl' = CtlIdle
  /\ op' = NoOp
  /\ AdapterIdle

\* disconnectFromLinera()
DisconnectFromLinera ==
  /\ ~OwnerPending
  /\ state' = [state EXCEPT !.isLineraConnected = FALSE,
                            !.walletAddress = NULL,
                            !.connectionError = NULL]
  /\ op' = Op("disconnectFromLinera", NULL, NULL, FALSE)
  /\ AdapterIdle
  /\ UNCHANGED ctl

\* A variant of StatusDiffers that asks for both to differ.
StatusDiffersBoth(st, isConnected, connecting) ==
  st.isLineraConnected # isConnected /\ st.isConnecting # connecting

\* prev.isLineraConnected !== isConnected ||
\* prev.isConnecting !== (connectionStatus === 'connecting')
StatusDiffers(st, isConnected, connecting) ==
  st.isLineraConnected # isConnected \/ st.isConnecting # connecting

\* One run of checkConnectionStatus with primaryWallet?.address = w; React
\* applies the updater to the state as it is.
CheckConnectionStatus(w) ==
  /\ ~OwnerPending
  /\ op' = Op("checkConnectionStatus", w, NULL, FALSE)
  /\ IF w # NULL
     THEN LET isConnected == isConnectedWithWallet(w)
              connecting == getConnectionStatus = "connecting"
          IN IF StatusDiffers(state, isConnected, connecting)
             THEN state' = [state EXCEPT !.isLineraConnected = isConnected,
                                         !.isConnecting = connecting,
                                         !.walletAddress = w]
             ELSE UNCHANGED state
     ELSE IF state.isWalletConnected \/ state.isLineraConnected
          THEN state' = [state EXCEPT !.isWalletConnected = FALSE,
                                      !.isLineraConnected = FALSE,
                                      !.isConnecting = FALSE,
                                      !.walletAddress = NULL]
          ELSE UNCHANGED state
  /\ AdapterIdle
  /\ UNCHANGED ctl

\* ------------------------------------------------------------------------
\* ConnectionContext: the new-block event
\* ------------------------------------------------------------------------

\* handleNewBlock of GlobalRankings and of the quiz page
Callbacks == {"rankings", "quiz"}
\* newBlock.height of a notification; 0 stands for a notification whose
\* reason is not NewBlock.
Heights == {1, 2}
\* The clock moves by these steps between two events.
TickSteps == {50, 51}
MaxTime == 205
MaxCallbacks == 2
\* timeDiff > 100
DebounceMs == 100

Infinity == 1000000000
\* null in the two number refs
NoTime == -1
NoHeight == -1

Abs(x) == IF x < 0 THEN -x ELSE x

\* lastBlockProcessTime.current ? Math.abs(receiveTime - it) : Infinity
TimeDiff(receiveTime) ==
  IF lastBlockProcessTime # NoTime /\ lastBlockProcessTime # 0
  THEN Abs(receiveTime - lastBlockProcessTime)
  ELSE Infinity

\* A variant of ShouldProcess that lets a block through after exactly 100 ms.
ShouldProcessInclusive(receiveTime) ==
  TimeDiff(receiveTime) >= DebounceMs \/ lastBlockProcessTime = NoTime

\* timeDiff > 100 || lastBlockProcessTime.current === null
ShouldProcess(receiveTime) ==
  TimeDiff(receiveTime) > DebounceMs \/ lastBlockProcessTime = NoTime

\* A variant of InvokeAll with no try/catch: the loop ends at the first
\* callback that throws.
InvokeUntilThrow(cbs, throwing) ==
  LET bad == {i \in 1..Len(cbs) : cbs[i] \in throwing}
  IN IF bad = {} THEN cbs
     ELSE SubSeq(cbs, 1, CHOOSE i \in bad : \A j \in bad : i <= j)

\* newBlockCallbacks.current.forEach with try/catch around each call: the
\* callbacks invoked, in order, when those of `throwing` throw.
InvokeAll(cbs, throwing) == cbs

NoNote == [time |-> 0, height |-> 0, processed |-> FALSE,
           registered |-> <<>>, invoked |-> <<>>]

\* onNewBlock(callback)
OnNewBlock(cb) ==
  /\ Len(newBlockCallbacks) < MaxCallbacks
  /\ newBlockCallbacks' = Append(newBlockCallbacks, cb)
  /\ UNCHANGED <<lastBlockHeight, lastBlockProcessTime, now, note,
                 processedTimes>>

\* offNewBlock(callback): every registration of the callback is removed
OffNewBlock(cb) ==
  /\ newBlockCallbacks' = SelectSeq(newBlockCallbacks, LAMBDA x : x # cb)
  /\ UNCHANGED <<lastBlockHeight, lastBlockProcessTime, now, note,
                 processedTimes>>

\* offNewBlock()
OffNewBlockAll ==
  /\ newBlockCallbacks' = <<>>
  /\ UNCHANGED <<lastBlockHeight, lastBlockProcessTime, now, note,
                 processedTimes>>

\* The chain client hands a notification to handleNotification; the callbacks
\* of `throwing` throw when they are called.
HandleNotification(height, throwing) ==
  /\ IF height = 0
     THEN \* no reason.NewBlock: nothing happens
          /\ note' = [NoNote EXCEPT !.time = now,
                                    !.registered = newBlockCallbacks]
          /\ UNCHANGED <<lastBlockHeight, lastBlockProcessTime,
                         processedTimes>>
     ELSE IF ShouldProcess(now)
     THEN /\ lastBlockHeight' = height
          /\ lastBlockProcessTime' = now
          /\ processedTimes' = processedTimes \cup {now}
          /\ note' = [time |-> now, height |-> height, processed |-> TRUE,
                      registered |-> newBlockCallbacks,
                      invoked |-> InvokeAll(newBlockCallbacks, throwing)]
     ELSE \* received within 100 ms: skipped
          /\ note' = [time |-> now, height |-> height, processed |-> FALSE,
                      registered |-> newBlockCallbacks, invoked |-> <<>>]
          /\ UNCHANGED <<lastBlockHeight, lastBlockProcessTime,
                         processedTimes>>
  /\ UNCHANGED <<newBlockCallbacks, now>>

\* Time passes.
Tick(d) ==
  /\ now + d <= MaxTime
  /\ now' = now + d
  /\ UNCHANGED <<newBlockCallbacks, lastBlockHeight, lastBlockProcessTime,
                 note, processedTimes>>

\* ------------------------------------------------------------------------
\* Specifications
\* ------------------------------------------------------------------------

WasmOutcomes == {"resolved", "rejectedStorage", "rejectedOther"}

InitSession ==
  /\ provider = NoProvider
  /\ application = 0
  /\ wasmInitPromise = 0
  /\ connectPromise = 0
  /\ isConnecting = FALSE
  /\ currentWalletAddress = NULL
  /\ isInitialized = FALSE
  /\ wasmPromises = <<>>
  /\ handshakes = <<>>
  /\ calls = {}
  /\ appPending = {}
  /\ nConnects = 0
  /\ resets = 0
  /\ sinceReset = FALSE
  /\ returned = {}
  /\ fired = FALSE
  /\ state = [isWalletConnected |-> FALSE, isLineraConnected |-> FALSE,
              isConnecting |-> FALSE, walletAddress |-> NULL,
              connectionError |-> NULL]
  /\ q = [pc |-> "idle", wallet |-> NULL, retryCount |-> 0, attempts |-> 0,
          waitTime |-> 0, polls |-> 0, waited |-> FALSE, connects |-> 0,
          call |-> 0, client |-> 0, app |-> 0, delay |-> 0,
          error |-> NoError, rejection |-> NoError]
  /\ newBlockCallbacks = <<>>
  /\ lastBlockHeight = NoHeight
  /\ lastBlockProcessTime = NoTime
  /\ now = 1
  /\ note = NoNote
  /\ processedTimes = {}
  /\ op = NoOp
  /\ ctl = CtlIdle

\* The page before the quiz store has loaded or taken any submission.
Init ==
  /\ InitSession
  /\ quizzes = <<>>
  /\ submissions = <<>>
  /\ savedSubmissions = <<>>
  /\ rankings = <<>>

\* The quiz store after initQuizzes() has loaded the saved submissions.
InitStore ==
  /\ InitSession
  /\ \E n \in 0..MaxSubmissions : \E f \in [1..n -> SavedFields] :
       /\ submissions = LoadSubmissions(f)
       /\ savedSubmissions = LoadSubmissions(f)
  /\ quizzes = <<>>
  /\ rankings = <<>>

\* The quiz store holding one quiz, before any submission.
InitSubmit ==
  /\ InitSession
  /\ \E n \in 0..Len(QuestionOrder) : \E k \in [1..n -> QuestionKinds] :
       quizzes = <<Quiz("quiz1", k)>>
  /\ submissions = <<>>
  /\ savedSubmissions = <<>>
  /\ rankings = <<>>

HsIds == DOMAIN handshakes

\* What a step of the adapter leaves alone in the context, and what a step
\* of the context leaves alone in the adapter.
AdapterOnly == UNCHANGED <<state, q, blockVars, ctl, storeVars>> /\ op' = NoOp
BlockIdle == UNCHANGED <<blockVars, callVars, storeVars>>
AdapterQuiet == UNCHANGED <<adapterVars, state, q, callVars, storeVars>>

\* The handshakes and their settlement, whoever started them.
HandshakeNext ==
  \/ \E p \in 1..Len(wasmPromises), o \in WasmOutcomes :
       WasmSettle(p, o) /\ AdapterOnly
  \/ \E h \in HsIds : HsWasm(h) /\ AdapterOnly
  \/ \E h \in HsIds : HsFail(h) /\ AdapterOnly
  \/ \E h \in HsIds : HsComplete(h) /\ AdapterOnly
  \/ \E h \in HsIds : OwnerResume(h) /\ AdapterOnly

\* The adapter under the components that connect, set the application and
\* reset.
Next ==
  \/ \E w \in Wallets : Connect(w) /\ AdapterOnly
  \/ HandshakeNext
  \/ Reset /\ AdapterOnly
  \/ SetApplication /\ AdapterOnly
  \/ \E c \in appPending : AppResolve(c) /\ AdapterOnly
  \/ \E c \in appPending : AppFail(c) /\ AdapterOnly

Spec == Init /\ [][Next]_vars

QuerySettled == q.pc \in {"resolved", "rejected"}

\* A component connects or resets while a query is under way.
EnvConnect(w) ==
  /\ ~OwnerPending
  /\ ~QuerySettled
  /\ nConnects + resets < MaxEnvOps
  /\ DoConnect("env", w)

EnvReset ==
  /\ ~OwnerPending
  /\ ~QuerySettled
  /\ nConnects + resets < MaxEnvOps
  /\ DoReset

\* The steps of the queryApplication call.
QueryNext ==
  \/ \E w \in Wallets \cup {NULL} : QueryApplication(w) /\ BlockIdle
  \/ QueryRetry /\ BlockIdle
  \/ QueryPoll /\ BlockIdle
  \/ CtlResume /\ BlockIdle
  \/ CtlAppResolve /\ BlockIdle
  \/ \E m \in SdkMessages \cup {"NoApplication"} : CtlAppFail(m) /\ BlockIdle
  \/ QueryAfterConnect /\ BlockIdle
  \/ QueryAppResolve /\ BlockIdle
  \/ \E m \in SdkMessages \cup {"NoApplication"} : QueryAppFail(m) /\ BlockIdle
  \/ QueryAfterApp /\ BlockIdle
  \/ QueryResolve /\ BlockIdle
  \/ \E m \in SdkMessages \cup {"QueryError"} : QueryFail(m) /\ BlockIdle

\* One queryApplication call of the context over the adapter; components
\* connect and reset until the call has settled.
NextQuery ==
  \/ \E w \in Wallets : EnvConnect(w) /\ AdapterOnly
  \/ EnvReset /\ AdapterOnly
  \/ HandshakeNext
  \/ QueryNext

SpecQuery == Init /\ [][NextQuery]_vars

\* The same under fewer operations of the components, where timers fire and
\* the promises of the SDK settle.
FairEnvConnect(w) ==
  /\ nConnects + resets < MaxFairEnvOps
  /\ EnvConnect(w)

FairEnvReset ==
  /\ nConnects + resets < MaxFairEnvOps
  /\ EnvReset

NextQueryFair ==
  \/ \E w \in Wallets : FairEnvConnect(w) /\ AdapterOnly
  \/ FairEnvReset /\ AdapterOnly
  \/ HandshakeNext
  \/ QueryNext

SpecQueryFair ==
  /\ Init
  /\ [][NextQueryFair]_vars
  /\ WF_vars(QueryNext)
  /\ WF_vars(HandshakeNext)

\* The notification handler of the context under the chain client, the
\* subscribing components and the clock.
NextBlock ==
  \/ \E cb \in Callbacks : OnNewBlock(cb) /\ AdapterQuiet
  \/ \E cb \in Callbacks : OffNewBlock(cb) /\ AdapterQuiet
  \/ OffNewBlockAll /\ AdapterQuiet
  \/ \E h \in Heights \cup {0}, th \in SUBSET Callbacks :
       HandleNotification(h, th) /\ AdapterQuiet
  \/ \E d \in TickSteps : Tick(d) /\ AdapterQuiet

SpecBlock == Init /\ [][NextBlock]_vars

\* What a call of an adapter operation leaves alone.
OpOnly == UNCHANGED <<state, q, blockVars, ctl, storeVars>>

\* The adapter under components that call every operation of it.
NextOps ==
  \/ \E w \in Wallets : Connect(w) /\ AdapterOnly
  \/ HandshakeNext
  \/ Reset /\ AdapterOnly
  \/ CallSetApplication /\ OpOnly
  \/ \E c \in appPending : AppResolve(c) /\ AdapterOnly
  \/ \E c \in appPending : AppFail(c) /\ AdapterOnly
  \/ \E n \in {"queryApplication", "mutateApplication"} :
       CallApplication(n) /\ OpOnly
  \/ \E n \in {"getProvider", "getFaucet", "getWallet"} :
       CallProviderGetter(n) /\ OpOnly
  \/ CallGetApplication /\ OpOnly

SpecOps == Init /\ [][NextOps]_vars

\* What a step of the context outside queryApplication leaves alone.
ContextOnly == UNCHANGED <<q, blockVars, storeVars>>

\* The context's connection management over the adapter, under components
\* that also connect and reset the adapter themselves.
NextContext ==
  \/ \E w \in Wallets \cup {NULL} : ConnectToLinera(w) /\ ContextOnly
  \/ ContextConnectResume /\ ContextOnly
  \/ ContextAppResolve /\ ContextOnly
  \/ \E m \in SdkMessages \cup {"NoApplication"} :
       ContextAppFail(m) /\ ContextOnly
  \/ DisconnectFromLinera /\ ContextOnly
  \/ \E w \in Wallets \cup {NULL} : CheckConnectionStatus(w) /\ ContextOnly
  \/ \E w \in Wallets :
       nConnects + resets < MaxContextOps /\ Connect(w) /\ AdapterOnly
  \/ nConnects + resets < MaxContextOps /\ Reset /\ AdapterOnly
  \/ HandshakeNext

SpecContext == Init /\ [][NextContext]_vars

\* What a call of the quiz store leaves alone.
StoreOnly == UNCHANGED <<adapterVars, state, q, blockVars, ctl>>

\* The quiz store under components that ask for the rankings of a quiz.
NextStore ==
  \/ \E quizId \in QuizIds : GetQuizRankings(quizId) /\ StoreOnly

SpecStore == InitStore /\ [][NextStore]_vars

\* One submitQuiz call on the quiz store, for the quiz it holds or for one it
\* does not hold.
NextSubmit ==
  \/ /\ op = NoOp
     /\ \E n \in 0..MaxAnswers : \E answers \in [1..n -> Answers] :
          SubmitQuiz("quiz1", answers) /\ StoreOnly
  \/ /\ op = NoOp
     /\ \E n \in 0..1 : \E answers \in [1..n -> Answers] :
          SubmitQuiz("quiz2", answers) /\ StoreOnly

SpecSubmit == InitSubmit /\ [][NextSubmit]_vars

\* ------------------------------------------------------------------------
\* Properties
\* ------------------------------------------------------------------------

\* C1: connect calls made while an earlier connect call has not settled, with
\* no reset() since that call, are coalesced: the calls still pending await
\* one and the same handshake, and a later call that returns at once returns
\* what that handshake's promise yields.
C1_ConcurrentConnectsCoalesced ==
  /\ \A c1, c2 \in Pending(calls) :
       c1.resets = c2.resets => c1.hs = c2.hs
  /\ \A r \in returned, c \in Pending(calls) :
       (r.id > c.id /\ r.resets = c.resets /\ r.status = "resolved")
         => r.ret.id = c.hs

\* C7: initLinera() is invoked at most once, and every handshake awaits the
\* one promise it returned, which stays stored in wasmInitPromise.
C7_WasmInitOnce ==
  /\ Len(wasmPromises) <= 1
  /\ wasmInitPromise = Len(wasmPromises)
  /\ \A h \in DOMAIN handshakes : handshakes[h].wasm = 1

\* C7 witness: after a reset and a failed WASM initialisation, a later connect
\* call awaits the promise stored by the first one.
C7_Witness ==
  /\ resets > 0
  /\ wasmPromises = <<"rejectedOther">>
  /\ \E h \in DOMAIN handshakes : h > 1 /\ handshakes[h].wasm = 1

\* C8: a connect(w) call made while the adapter holds a provider and
\* currentWalletAddress = w returns that provider at once, starts no
\* handshake, changes no adapter field and runs no connection-state callback.
C8_ConnectIdempotent ==
  [][(nConnects' = nConnects + 1 /\ provider # NoProvider)
       => \A c \in returned' \cup calls' :
            (c.id = nConnects' /\ c.addr = currentWalletAddress)
              => /\ c \in returned'
                 /\ c.path = "reuse"
                 /\ c.status = "resolved"
                 /\ c.ret = provider
                 /\ calls' = calls
                 /\ ~fired'
                 /\ UNCHANGED <<adapterFields, wasmPromises, handshakes,
                                appPending>>]_vars

\* C8 witness: a connect call has just returned the stored provider while a
\* handshake started for that wallet is still pending.
C8_Witness ==
  /\ \E r \in returned : r.path = "reuse" /\ r.ret = provider
  /\ connectPromise # 0

\* C9: a connect(w) call that resolves returns a provider whose address is w.
C9_ResolvesWithOwnWallet ==
  \A r \in returned : r.status = "resolved" => r.ret.address = r.addr

\* C10: isConnectedWithWallet(a) implies that the stored provider was built
\* for address a.
C10_ConnectedWalletOwnsProvider ==
  \A a \in Wallets : isConnectedWithWallet(a) => provider.address = a

\* The messages whose text contains neither 'Connection' nor 'connection'.
NonConnectionMessages ==
  {m \in Messages :
     /\ ~Includes(MessageText(m),
                  <<"C", "o", "n", "n", "e", "c", "t", "i", "o", "n">>)
     /\ ~Includes(MessageText(m),
                  <<"c", "o", "n", "n", "e", "c", "t", "i", "o", "n">>)}

\* C2: one queryApplication call makes at most 3 attempts (retryCount 0, 1,
\* 2), waits 1000 * (retryCount + 1) ms before a retry, and rejects with the
\* error of its last attempt.
C2_BoundedRetries ==
  /\ q.attempts <= 3
  /\ q.retryCount \in 0..2
  /\ q.pc # "idle" => q.attempts = q.retryCount + 1
  /\ q.pc = "delay" =>
       /\ q.retryCount < 2
       /\ q.delay = 1000 * (q.retryCount + 1)
       /\ q.error.attempt = q.retryCount
  /\ q.pc = "rejected" =>
       /\ q.rejection = q.error
       /\ q.error.attempt = q.retryCount
  /\ (q.error # NoError /\ q.error.attempt = 2) =>
       (q.pc = "rejected" /\ q.rejection = q.error)

\* C2, termination: with timers that fire and adapter calls that settle, a
\* queryApplication call that has started resolves or rejects.
C2_QuerySettles ==
  /\ []C2_BoundedRetries
  /\ (q.pc # "idle") ~> QuerySettled

\* C2 witness: the third attempt failed with a connection error and the call
\* rejected with it.
C2_Witness ==
  /\ q.pc = "rejected"
  /\ q.attempts = 3
  /\ q.rejection = [message |-> "SdkConnection", attempt |-> 2]

\* C3: an attempt that fails with a message containing neither 'Connection'
\* nor 'connection' ends the call: it rejects with that very error, with no
\* retry delay and no further attempt.
C3_OtherErrorsNotRetried ==
  /\ {"NoWallet", "NotConnected", "AppNotSet"} \subseteq NonConnectionMessages
  /\ (q.error # NoError /\ q.error.message \in NonConnectionMessages)
       => /\ q.pc = "rejected"
          /\ q.rejection = q.error
          /\ q.attempts = q.error.attempt + 1
          /\ q.delay = 0

\* C3 witness: connectToLinera failed, setApplication threw 'Not connected to
\* Linera', and the call rejected after its first attempt.
C3_Witness ==
  /\ q.pc = "rejected"
  /\ q.rejection = [message |-> "NotConnected", attempt |-> 0]
  /\ q.connects = 1

\* C6: an attempt that finds the adapter 'connecting' polls instead of
\* connecting: no connect call, at most 10 checks, WAIT_INTERVAL apart, the
\* query as soon as a check succeeds, 'Connection timeout' after the tenth.
C6_PollsWhileConnecting ==
  q.waited =>
    /\ q.connects = 0
    /\ q.pc \notin {"ctlConnect", "ctlApp", "ctlDone"}
    /\ q.polls <= 10
    /\ q.pc = "sleep" =>
         /\ q.delay = 500
         /\ q.polls < 10
         /\ q.waitTime = 500 * q.polls
    /\ (q.pc \in {"awaitApp", "afterApp", "awaitQuery", "resolved"}) =>
         /\ q.polls >= 1
         /\ q.waitTime = 500 * (q.polls - 1)
    /\ (q.error = [message |-> "Timeout", attempt |-> q.retryCount]) =>
         /\ q.polls = 10
         /\ q.waitTime = 5000

\* C6 witness: the tenth check succeeded and the query was sent.
C6_Witness ==
  /\ q.waited
  /\ q.polls = 10
  /\ q.pc = "awaitQuery"

\* C4 as stated: every NewBlock notification handed to the handler invokes
\* every callback registered at that time.
C4_EveryNotificationInvokesAll ==
  note.height # 0 => note.invoked = note.registered

\* C4 as amended: a NewBlock notification invokes every callback registered
\* at that time, each once and in order, unless it arrives within 100 ms of
\* the last processed notification, and then it invokes none.
C4_ProcessedInvokesAll ==
  note.height # 0 =>
    \/ note.processed /\ note.invoked = note.registered
    \/ /\ ~note.processed
       /\ note.invoked = <<>>
       /\ lastBlockProcessTime # NoTime
       /\ note.time - lastBlockProcessTime \in 0..100

\* C4 witness: a processed notification invoked two registered callbacks.
C4_Witness ==
  /\ note.processed
  /\ Len(note.registered) = 2
  /\ note.invoked = note.registered

\* C5: a NewBlock notification is processed exactly when it is the first one
\* or comes more than 100 ms after the last processed one; a skipped one
\* invokes nothing and leaves both refs unchanged; processed notifications
\* are more than 100 ms apart.
C5_Debounced ==
  /\ [](\A t1, t2 \in processedTimes : t1 # t2 => Abs(t1 - t2) > 100)
  /\ [][(note' # note /\ note'.height # 0) =>
          /\ note'.processed <=>
               (lastBlockProcessTime = NoTime \/ now - lastBlockProcessTime > 100)
          /\ note'.processed =>
               /\ lastBlockHeight' = note'.height
               /\ lastBlockProcessTime' = now
          /\ ~note'.processed =>
               /\ note'.invoked = <<>>
               /\ UNCHANGED <<lastBlockHeight, lastBlockProcessTime>>]_vars

\* C5 witness: two notifications were processed and a third, within 100 ms of
\* the second, was skipped.
C5_Witness ==
  /\ Cardinality(processedTimes) >= 2
  /\ note.height # 0
  /\ ~note.processed
  /\ note.time - lastBlockProcessTime = 100

\* C11: when the call that started a handshake rejects, provider, application
\* and currentWalletAddress are null, connectPromise is null and isConnecting
\* is false, so getConnectionStatus() is 'disconnected' and a connect call for
\* any wallet would start a fresh handshake.
C11_FailureCleansUp ==
  \A r \in returned :
    (r.path = "start" /\ r.status = "rejected") =>
      /\ provider = NoProvider
      /\ application = 0
      /\ currentWalletAddress = NULL
      /\ connectPromise = 0
      /\ ~isConnecting
      /\ getConnectionStatus = "disconnected"
      /\ \A w \in Wallets : ConnectPath(w) = "start"

\* C11 witness: with no reset so far, a connect call for B has just rejected
\* on an adapter that an earlier handshake had connected (isInitialized is
\* still true).
C11_Witness ==
  /\ isInitialized
  /\ resets = 0
  /\ \E r \in returned :
       r.path = "start" /\ r.status = "rejected" /\ r.addr = "B" /\ r.id > 1

\* C12: after reset(), as long as no connect call has been made, the adapter
\* is disconnected: isChainConnected() is false and getConnectionStatus() is
\* 'disconnected', also when a handshake in flight at the reset completes.
C12_StaysDisconnectedAfterReset ==
  sinceReset => (~isChainConnected /\ getConnectionStatus = "disconnected")

\* The handshakes whose async body has not finished.
InFlight == {h \in DOMAIN handshakes : ~HsSettled(h)}

\* C13: at most one handshake is in flight at any time, and while one is in
\* flight connectPromise is its promise, so that a further connect call is
\* coalesced onto it.
C13_OneHandshakeInFlight ==
  /\ Cardinality(InFlight) <= 1
  /\ \A c \in Pending(calls) :
       (c.path = "start" /\ c.resets = resets /\ c.hs \in InFlight)
         => connectPromise = c.hs

\* C14: whenever isApplicationSet() is true, the stored application was
\* obtained from the client of the stored provider.
C14_ApplicationOfCurrentProvider ==
  isApplicationSet => application = provider.id

\* C15: isApplicationSet() implies isChainConnected().
C15_ApplicationNeedsProvider ==
  isApplicationSet => isChainConnected

\* C16: every step in which the provider or the application becomes set or
\* becomes cleared runs the connection-state callbacks.
C16_CallbacksOnEveryChange ==
  [][(isChainConnected' # isChainConnected
        \/ isApplicationSet' # isApplicationSet) => fired']_vars

\* C17: an adapter operation whose precondition fails throws: setApplication
\* with no provider 'Not connected to Linera', queryApplication and
\* mutateApplication with no application 'Application not set' with nothing
\* sent, the getters when their value is unset; a call that throws changes no
\* adapter field, starts nothing and runs no connection-state callback.
C17_FailedPreconditionChangesNothing ==
  [][/\ op'.name = "setApplication" =>
          (provider = NoProvider <=> op'.threw = "NotConnected")
     /\ op'.name \in {"queryApplication", "mutateApplication"} =>
          /\ application = 0 <=> op'.threw = "AppNotSet"
          /\ application = 0 <=> ~op'.sent
     /\ op'.name \in {"getProvider", "getFaucet", "getWallet"} =>
          (provider = NoProvider <=> op'.threw # NULL)
     /\ op'.name = "getApplication" =>
          (application = 0 <=> op'.threw = "AppNotSet")
     /\ op'.threw # NULL =>
          /\ UNCHANGED <<adapterFields, asyncVars>>
          /\ ~fired'
          /\ ~op'.sent]_vars

\* C17 witness: setApplication has just thrown on an adapter that a reset
\* left without a provider while a handshake is still running.
C17_Witness ==
  /\ op = Op("setApplication", NULL, "NotConnected", FALSE)
  /\ sinceReset
  /\ handshakes # <<>>

\* The step calls neither lineraAdapter.connect nor setApplication and leaves
\* the connectToLinera call in progress, if any, where it is.
NoAdapterCall ==
  /\ nConnects' = nConnects
  /\ UNCHANGED <<adapterFields, asyncVars, ctl>>
  /\ ~fired'

\* C18: connectToLinera with no wallet address only sets connectionError to
\* 'No wallet connected'; with the adapter connected with the wallet it only
\* synchronises isLineraConnected, walletAddress and connectionError; with the
\* adapter 'connecting' it returns at once and changes no context state; in
\* these three cases it calls neither connect nor setApplication, and in the
\* remaining case it calls connect.
C18_ConnectsOnlyWhenNeeded ==
  [][op'.name = "connectToLinera" =>
       LET w == op'.arg
       IN /\ w = NULL =>
               /\ state' = [state EXCEPT !.connectionError = "NoWallet"]
               /\ NoAdapterCall
          /\ (w # NULL /\ isConnectedWithWallet(w)) =>
               /\ state' = [state EXCEPT !.isLineraConnected = TRUE,
                                         !.walletAddress = w,
                                         !.connectionError = NULL]
               /\ NoAdapterCall
          /\ (w # NULL /\ ~isConnectedWithWallet(w)
                /\ getConnectionStatus = "connecting") =>
               /\ state' = state
               /\ NoAdapterCall
          /\ (w # NULL /\ ~isConnectedWithWallet(w)
                /\ getConnectionStatus # "connecting") =>
               /\ nConnects' = nConnects + 1
               /\ ctl'.pc = "connect"]_vars

\* C18 witness: connectToLinera has just returned at once for wallet B while
\* an earlier connectToLinera call for A awaits its handshake.
C18_Witness ==
  /\ op = Op("connectToLinera", "B", NULL, FALSE)
  /\ ctl.pc = "connect"
  /\ ctl.wallet = "A"
  /\ ~isConnectedWithWallet("B")
  /\ getConnectionStatus = "connecting"
  /\ handshakes # <<>>

\* C19: after a run of checkConnectionStatus with a wallet address,
\* state.isLineraConnected equals isConnectedWithWallet(address) and
\* state.isConnecting equals (getConnectionStatus() = 'connecting'), and the
\* state is replaced only when one of the two differed; with no address the
\* run resets isWalletConnected, isLineraConnected, isConnecting and
\* walletAddress when one of the connected flags was true, and else leaves
\* the state as it is.
C19_StatusCheckFollowsAdapter ==
  [][op'.name = "checkConnectionStatus" =>
       LET w == op'.arg
       IN /\ UNCHANGED <<adapterFields, asyncVars>>
          /\ w # NULL =>
               /\ state'.isLineraConnected = isConnectedWithWallet(w)
               /\ state'.isConnecting = (getConnectionStatus = "connecting")
               /\ state' # state =>
                    \/ state.isLineraConnected # isConnectedWithWallet(w)
                    \/ state.isConnecting
                         # (getConnectionStatus = "connecting")
          /\ w = NULL =>
               IF state.isWalletConnected \/ state.isLineraConnected
               THEN state' = [state EXCEPT !.isWalletConnected = FALSE,
                                           !.isLineraConnected = FALSE,
                                           !.isConnecting = FALSE,
                                           !.walletAddress = NULL]
               ELSE state' = state]_vars

\* C19 witness: a run for wallet A found the adapter connected with A after
\* the context had recorded a failed connection, and set isLineraConnected.
C19_Witness ==
  /\ op = Op("checkConnectionStatus", "A", NULL, FALSE)
  /\ state.isLineraConnected
  /\ ~state.isConnecting
  /\ state.connectionError = "ConnectFailed"
  /\ isConnectedWithWallet("A")

\* C20: getQuizRankings(quizId) returns exactly the submissions of that quiz,
\* each with its content, ordered by score descending and for equal scores by
\* timeTaken ascending, with rank equal to the position 1..n, and leaves the
\* submissions list of the store as it was.
C20_RankingsSortedAndRanked ==
  [][op'.name = "getQuizRankings" =>
       LET quizId == op'.arg
           r == rankings'
           ofQuiz == {i \in DOMAIN submissions :
                        submissions[i].quizId = quizId}
       IN /\ submissions' = submissions
          /\ Len(r) = Cardinality(ofQuiz)
          /\ {r[i].id : i \in DOMAIN r} = {submissions[i].id : i \in ofQuiz}
          /\ \A i \in DOMAIN r : \E j \in ofQuiz :
               /\ r[i].id = submissions[j].id
               /\ r[i].quizId = submissions[j].quizId
               /\ r[i].score = submissions[j].score
               /\ r[i].timeTaken = submissions[j].timeTaken
          /\ \A i \in DOMAIN r : r[i].rank = i
          /\ \A i, j \in DOMAIN r :
               i < j => \/ r[i].score > r[j].score
                        \/ /\ r[i].score = r[j].score
                           /\ r[i].timeTaken <= r[j].timeTaken]_vars

\* C20 witness: the rankings of a quiz with three submissions come in the
\* reverse of the store's order, the first two tied on the score and told
\* apart by the time taken.
C20_Witness ==
  /\ op.name = "getQuizRankings"
  /\ Len(submissions) = 3
  /\ Len(rankings) = 3
  /\ <<rankings[1].id, rankings[2].id, rankings[3].id>> = <<3, 2, 1>>
  /\ rankings[1].score = rankings[2].score
  /\ rankings[1].timeTaken < rankings[2].timeTaken
  /\ rankings[2].score > rankings[3].score

\* The sum of the numbers of a sequence.
RECURSIVE SumSeq(_)
SumSeq(s) == IF s = <<>> THEN 0 ELSE Head(s) + SumSeq(Tail(s))

\* C21: the score of a submission made by submitQuiz is the sum, over the
\* answers, of what each earns: nothing unless its question belongs to the
\* quiz and is answered correctly (single choice: exactly one selected option,
\* a correct one; multiple choice: the selected set equals the correct set),
\* and else round(points * (1 - min(timeTaken / 30, 1))), which is 0 from 30
\* seconds on; its timeTaken is the sum of the timeTaken of the answers whose
\* question was found.
C21_ScoreSumsWeightedCorrectAnswers ==
  [][(op'.name = "submitQuiz" /\ op'.threw = NULL) =>
       LET quizId == op'.arg.quizId
           answers == op'.arg.answers
           quiz == quizzes[CHOOSE i \in DOMAIN quizzes :
                             quizzes[i].id = quizId]
           Found(a) == \E i \in DOMAIN quiz.questions :
                         quiz.questions[i].id = a.questionId
           QuestionOf(a) ==
             quiz.questions[CHOOSE i \in DOMAIN quiz.questions :
                              quiz.questions[i].id = a.questionId]
           SelectedSet(a) ==
             {a.selectedAnswers[i] : i \in DOMAIN a.selectedAnswers}
           CorrectSet(a) ==
             {QuestionOf(a).correctAnswers[i] :
                i \in DOMAIN QuestionOf(a).correctAnswers}
           Correct(a) ==
             /\ Found(a)
             /\ IF QuestionOf(a).type = "single"
                THEN /\ Len(a.selectedAnswers) = 1
                     /\ SelectedSet(a) \subseteq CorrectSet(a)
                ELSE SelectedSet(a) = CorrectSet(a)
           \* 30 * points * (1 - min(timeTaken / 30, 1))
           Weighted30(a) ==
             QuestionOf(a).points
               * (30 - (IF a.timeTaken <= 30 THEN a.timeTaken ELSE 30))
           \* the integer nearest to Weighted30(a) / 30, a half going up
           Earned(a) ==
             IF Correct(a)
             THEN CHOOSE n \in 0..QuestionOf(a).points :
                    /\ 60 * n - 30 <= 2 * Weighted30(a)
                    /\ 2 * Weighted30(a) < 60 * n + 30
             ELSE 0
           sub == submissions'[Len(submissions')]
       IN /\ \E i \in DOMAIN quizzes : quizzes[i].id = quizId
          /\ submissions' = Append(submissions, sub)
          /\ sub.quizId = quizId
          /\ sub.score = SumSeq([i \in DOMAIN answers |-> Earned(answers[i])])
          /\ sub.timeTaken =
               SumSeq([i \in DOMAIN answers |->
                         IF Found(answers[i]) THEN answers[i].timeTaken
                         ELSE 0])
          /\ \A i \in DOMAIN answers :
               (Correct(answers[i]) /\ answers[i].timeTaken >= 30)
                 => Earned(answers[i]) = 0]_vars

\* C21 witness: a submission of two answers, a correct single choice after
\* 15 seconds on a question of 3 points, which earns 2, and a correct
\* multiple choice after 45 seconds, which earns 0.
C21_Witness ==
  /\ op.name = "submitQuiz"
  /\ op.threw = NULL
  /\ quizzes[1].questions =
       <<[id |-> "q1", type |-> "single", points |-> 3,
          correctAnswers |-> <<0, 1>>],
         [id |-> "q2", type |-> "multiple", points |-> 1,
          correctAnswers |-> <<0, 1>>]>>
  /\ op.arg.answers =
       <<[questionId |-> "q1", selectedAnswers |-> <<1>>, timeTaken |-> 15],
         [questionId |-> "q2", selectedAnswers |-> <<1, 0>>,
          timeTaken |-> 45]>>
  /\ Len(submissions) = 1
  /\ submissions[1].score = 2
  /\ submissions[1].timeTaken = 60

====
